---- MODULE Spec2Model ----
(***************************************************************************)
(* Model of the lyrics-extractor API: the Flask handlers of src/api.py,    *)
(* the retrieval orchestrator of src/core/working_lyrics_extractor.py and  *)
(* the lazily built Supabase client of src/core/supabase_client.py.        *)
(*                                                                         *)
(* One request is in flight at a time (each handler runs synchronously);   *)
(* pc is the handler's position.  The external collaborators (search API,  *)
(* page fetch, generative model, Supabase) answer nondeterministically.    *)
(***************************************************************************)
EXTENDS Integers, Sequences, FiniteSets, TLC

\* Python's None for the string-valued request fields and table columns.
None == "None"

(***************************************************************************)
(* Text.  A Python str is a sequence of runs [c, n]: n >= 1 copies of the  *)
(* character class c.  "CR" is \r, "LF" is \n, "SP" a blank, "x" any       *)
(* non-whitespace character.  len() is the sum of the run lengths, so the  *)
(* 20,000 character limit keeps its real value.                            *)
(***************************************************************************)
Chars == {"CR", "LF", "SP", "x"}
Whitespace == {"CR", "LF", "SP"}

Run(c, n) == [c |-> c, n |-> n]

\* Python values of the JSON fields 'lyrics' and 'song_name'.
PyNone == [t |-> "None"]
PyInt == [t |-> "int"]
PyStr(s) == [t |-> "str", s |-> s]

\* isinstance(v, str)
IsStr(v) == v.t = "str"

RECURSIVE StrLen(_)
\* len(s)
StrLen(s) == IF s = <<>> THEN 0 ELSE Head(s).n + StrLen(Tail(s))

RECURSIVE Canon(_)
\* The same text with adjacent runs of one character merged.
Canon(s) ==
    IF Len(s) <= 1 THEN s
    ELSE LET rest == Canon(Tail(s))
         IN  IF Head(s).c = Head(rest).c
             THEN <<Run(Head(s).c, Head(s).n + Head(rest).n)>> \o Tail(rest)
             ELSE <<Head(s)>> \o rest

RECURSIVE ReplaceCRLF(_)
\* s.replace('\r\n', '\n') on merged runs: the \r directly before a \n goes.
ReplaceCRLF(s) ==
    IF Len(s) <= 1 THEN s
    ELSE IF Head(s).c = "CR" /\ s[2].c = "LF"
         THEN (IF Head(s).n = 1 THEN <<>> ELSE <<Run("CR", Head(s).n - 1)>>)
              \o ReplaceCRLF(Tail(s))
         ELSE <<Head(s)>> \o ReplaceCRLF(Tail(s))

\* s.replace('\r', '\n')
ReplaceCR(s) == [i \in 1..Len(s) |-> IF s[i].c = "CR" THEN Run("LF", s[i].n) ELSE s[i]]

\* Mutant: a run of 3 or more newlines loses one newline.
CollapseOneNewline(s) ==
    [i \in 1..Len(s) |-> IF s[i].c = "LF" /\ s[i].n >= 3 THEN Run("LF", s[i].n - 1) ELSE s[i]]

\* re.sub(r"\n{3,}", "\n\n", s) on merged runs
CollapseNewlines(s) ==
    [i \in 1..Len(s) |-> IF s[i].c = "LF" /\ s[i].n >= 3 THEN Run("LF", 2) ELSE s[i]]

RECURSIVE LStrip(_)
LStrip(s) == IF s # <<>> /\ Head(s).c \in Whitespace THEN LStrip(Tail(s)) ELSE s

RECURSIVE RStrip(_)
RStrip(s) ==
    IF s # <<>> /\ s[Len(s)].c \in Whitespace THEN RStrip(SubSeq(s, 1, Len(s) - 1)) ELSE s

\* s.strip()
Strip(s) == RStrip(LStrip(s))

\* Truthiness of `isinstance(v, str) and v.strip()`
NonBlankStr(v) == IsStr(v) /\ Strip(v.s) # <<>>

(***************************************************************************)
(* Exceptions and call results.  A call either returns a value or raises.  *)
(***************************************************************************)
Exc(type, msg) == [type |-> type, msg |-> msg]
NoExc == Exc("", "")

Return(v) == [raised |-> FALSE, exc |-> NoExc, value |-> v]
Raise(e) == [raised |-> TRUE, exc |-> e, value |-> <<>>]

\* src/api.py:50
MaxLyricsLen == 20000

\* Lines 43-46: line endings unified, runs of 3+ newlines collapsed, ends trimmed.
NormalizedText(s) == Strip(CollapseNewlines(Canon(ReplaceCR(ReplaceCRLF(Canon(s))))))

\* Mutant: a text of exactly the limit is rejected as well.
NormalizeLimitInclusive(raw_lyrics) ==
    IF ~IsStr(raw_lyrics)
    THEN Raise(Exc("ValueError", "lyrics must be a string"))
    ELSE IF StrLen(NormalizedText(raw_lyrics.s)) = 0
    THEN Raise(Exc("ValueError", "lyrics must not be empty"))
    ELSE IF StrLen(NormalizedText(raw_lyrics.s)) >= MaxLyricsLen
    THEN Raise(Exc("ValueError", "lyrics too long; please provide fewer than 20,000 characters"))
    ELSE Return(NormalizedText(raw_lyrics.s))

\* Mutant: the size guard of line 50 is missing.
NormalizeWithoutLimit(raw_lyrics) ==
    IF ~IsStr(raw_lyrics)
    THEN Raise(Exc("ValueError", "lyrics must be a string"))
    ELSE IF StrLen(NormalizedText(raw_lyrics.s)) = 0
    THEN Raise(Exc("ValueError", "lyrics must not be empty"))
    ELSE Return(NormalizedText(raw_lyrics.s))

_normalize_and_validate_lyrics(raw_lyrics) ==
    IF ~IsStr(raw_lyrics)
    THEN Raise(Exc("ValueError", "lyrics must be a string"))
    ELSE LET normalized == NormalizedText(raw_lyrics.s)
         IN  IF StrLen(normalized) = 0
             THEN Raise(Exc("ValueError", "lyrics must not be empty"))
             ELSE IF StrLen(normalized) > MaxLyricsLen
             THEN Raise(Exc("ValueError", "lyrics too long; please provide fewer than 20,000 characters"))
             ELSE Return(normalized)

(***************************************************************************)
(* src/core/supabase_client.py: the module-level client handle.            *)
(* sb_env says whether the supabase package was importable and whether     *)
(* SUPABASE_URL and a key are set in the environment.                      *)
(***************************************************************************)
SupabaseEnvs == {"ok", "no_package", "no_credentials"}

\* The handle create_client returns.
Client == "client"

\* get_supabase_client(): the returned handle (or the exception) and the
\* value of the global _supabase_client afterwards.
get_supabase_client(handle, env) ==
    IF handle # None
    THEN [raised |-> FALSE, exc |-> NoExc, value |-> handle, handle |-> handle]
    ELSE IF env = "no_package"
    THEN [raised |-> TRUE, exc |-> Exc("RuntimeError", "supabase package is not installed"),
          value |-> None, handle |-> handle]
    ELSE IF env = "no_credentials"
    THEN [raised |-> TRUE, exc |-> Exc("RuntimeError", "SUPABASE_URL and key must be set"),
          value |-> None, handle |-> handle]
    ELSE [raised |-> FALSE, exc |-> NoExc, value |-> Client, handle |-> Client]

(***************************************************************************)
(* The table "meanings": a set of rows [song_id, title, artist, payload].  *)
(* song_id is unique among the rows that have one.                         *)
(***************************************************************************)
\* "No payload": the Python None where a payload dict is expected.
NoPayload == [none |-> TRUE]

Row(song_id, title, artist, payload) ==
    [song_id |-> song_id, title |-> title, artist |-> artist, payload |-> payload]

\* Truthiness of an optional string: neither None nor ''.
Truthy(s) == s # None /\ s # ""

\* str(song_id) if song_id is not None else None
StrOrNone(song_id) == song_id

\* Mutant: the song_id branch is missing, the title keys are always used.
QueryKeyByTitleFirst(song_id, title, artist) ==
    IF Truthy(title) /\ Truthy(artist) THEN "title_artist"
    ELSE IF Truthy(title) THEN "title"
    ELSE IF Truthy(song_id) THEN "song_id"
    ELSE "none"

\* Which query lines 176-183 build.
QueryKey(song_id, title, artist) ==
    IF Truthy(song_id) THEN "song_id"
    ELSE IF Truthy(title) /\ Truthy(artist) THEN "title_artist"
    ELSE IF Truthy(title) THEN "title"
    ELSE "none"

\* The rows the built query selects.
QueryRows(table, song_id, title, artist) ==
    LET key == QueryKey(song_id, title, artist)
    IN  IF key = "song_id" THEN {r \in table : r.song_id = song_id}
        ELSE IF key = "title_artist" THEN {r \in table : r.title = title /\ r.artist = artist}
        ELSE IF key = "title" THEN {r \in table : r.title = title}
        ELSE {}

\* What query.execute() can answer: a failure, or resp.data, which under
\* limit(1) holds any one of the selected rows, or nothing.
ExecuteResults(table, song_id, title, artist) ==
    LET rows == QueryRows(table, song_id, title, artist)
    IN  {[ok |-> FALSE, data |-> <<>>]}
        \cup (IF rows = {} THEN {[ok |-> TRUE, data |-> <<>>]}
              ELSE {[ok |-> TRUE, data |-> <<r>>] : r \in rows})

\* _get_cached_meaning_from_supabase, given what execute() answers.
\* executed: whether a query was sent to the table.
_get_cached_meaning_from_supabase(song_id, title, artist, handle, env, result) ==
    LET sb == get_supabase_client(handle, env)
        out(raised, exc, value, executed) ==
            [raised |-> raised, exc |-> exc, value |-> value,
             handle |-> sb.handle, executed |-> executed]
    IN  IF sb.raised THEN out(FALSE, NoExc, NoPayload, FALSE)
        ELSE IF QueryKey(song_id, title, artist) = "none"
        THEN out(FALSE, NoExc, NoPayload, FALSE)
        ELSE IF ~result.ok
        THEN out(TRUE, Exc("APIError", "query failed"), NoPayload, TRUE)
        ELSE IF result.data # <<>> THEN out(FALSE, NoExc, result.data[1].payload, TRUE)
        ELSE out(FALSE, NoExc, NoPayload, TRUE)

\* Mutant: the upsert is built but never executed.
UpsertNotExecuted(table, record) == table

\* upsert(record, on_conflict="song_id"): a row with the same non-null
\* song_id is overwritten, otherwise the record is inserted.
Upsert(table, record) ==
    IF record.song_id # None
    THEN {r \in table : r.song_id # record.song_id} \cup {record}
    ELSE table \cup {record}

\* _upsert_meaning_into_supabase, given whether execute() succeeds.
_upsert_meaning_into_supabase(song_id, title, artist, payload, handle, env, table, execute_ok) ==
    LET sb == get_supabase_client(handle, env)
        record == Row(StrOrNone(song_id), title, artist, payload)
        out(raised, exc, value, t, executed) ==
            [raised |-> raised, exc |-> exc, value |-> value,
             handle |-> sb.handle, table |-> t, executed |-> executed]
    IN  IF sb.raised THEN out(FALSE, NoExc, FALSE, table, FALSE)
        ELSE IF ~execute_ok
        THEN out(TRUE, Exc("APIError", "upsert failed"), FALSE, table, TRUE)
        ELSE out(FALSE, NoExc, TRUE, Upsert(table, record), TRUE)

(***************************************************************************)
(* The generative model (src/api.py:54-156).                               *)
(* gemini_env: whether GEMINI_API_KEY is set and the package importable.   *)
(* A reply of generate_content is an exception carrying a message, or a    *)
(* response whose text is empty, not JSON even after the repair, JSON      *)
(* without a lyricsMeaning list, or a payload with a lyricsMeaning list.   *)
(***************************************************************************)
GeminiEnvs == {"ok", "no_key", "no_package"}

Meanings == {"m1", "m2"}

\* Messages of the exceptions generate_content raises.
ModelErrors == {"Quota exceeded", "429 Too Many Requests", "Rate limit reached", "Connection reset"}

\* 'quota' in error_msg.lower() or '429' in error_msg
HasQuotaSignal(msg) == msg \in {"Quota exceeded", "429 Too Many Requests"}

\* 'rate' in error_msg.lower()
HasRateSignal(msg) == msg \in {"Rate limit reached"}

ModelReplies ==
    [kind : {"raise"}, msg : ModelErrors, meaning : {None}]
    \cup [kind : {"empty", "invalid_json", "no_lyricsMeaning", "not_a_list"},
          msg : {""}, meaning : {None}]
    \cup [kind : {"payload"}, msg : {""}, meaning : Meanings]

\* The dict json.loads gives for a well-formed reply.
ModelPayload(reply) == [songId |-> None, lyricsMeaning |-> reply.meaning]

\* _configure_gemini()
_configure_gemini(env) ==
    IF env = "no_key"
    THEN Raise(Exc("RuntimeError", "GEMINI_API_KEY environment variable is not set"))
    ELSE IF env = "no_package"
    THEN Raise(Exc("RuntimeError", "google-generativeai package is not installed"))
    ELSE Return(None)

\* Lines 111-156: the guarded generate_content call and what follows it.
GuardedGenerate(reply, invocations) ==
    LET out(raised, exc, value) ==
            [raised |-> raised, exc |-> exc, value |-> value, invocations |-> invocations]
    IN  IF reply.kind = "raise"
        THEN IF HasQuotaSignal(reply.msg)
             THEN out(TRUE, Exc("RuntimeError", "Gemini API quota exceeded"), NoPayload)
             ELSE IF HasRateSignal(reply.msg)
             THEN out(TRUE, Exc("RuntimeError", "Gemini API rate limit exceeded"), NoPayload)
             ELSE out(TRUE, Exc("RuntimeError", "Gemini API error: " \o reply.msg), NoPayload)
        ELSE IF reply.kind = "empty"
        THEN out(TRUE, Exc("RuntimeError", "Gemini returned an empty response"), NoPayload)
        ELSE IF reply.kind = "invalid_json"
        THEN out(TRUE, Exc("RuntimeError", "Gemini returned invalid JSON format"), NoPayload)
        ELSE IF reply.kind = "no_lyricsMeaning"
        THEN out(TRUE, Exc("RuntimeError", "Invalid model output: missing lyricsMeaning"), NoPayload)
        ELSE IF reply.kind = "not_a_list"
        THEN out(TRUE, Exc("RuntimeError", "Invalid model output: lyricsMeaning must be an array"),
                 NoPayload)
        ELSE out(FALSE, NoExc, ModelPayload(reply))

\* _call_gemini_lyrics_meaning: reply1 answers the generate_content call of
\* line 101, reply2 the one of line 112.  invocations counts the calls made.
_call_gemini_lyrics_meaning(lyrics, env, reply1, reply2) ==
    IF _configure_gemini(env).raised
    THEN [raised |-> TRUE, exc |-> _configure_gemini(env).exc, value |-> NoPayload,
          invocations |-> 0]
    ELSE IF reply1.kind = "raise"
    THEN [raised |-> TRUE, exc |-> Exc("APIError", reply1.msg), value |-> NoPayload,
          invocations |-> 1]
    ELSE GuardedGenerate(reply2, 2)

(***************************************************************************)
(* Retrieval (src/core/working_lyrics_extractor.py).                       *)
(* A search reply is a transport/JSON failure or a JSON body that may      *)
(* carry spelling.correctedQuery and holds n items.  The item at position  *)
(* i of the reply to request q has the link <<q, i>> and its own title.    *)
(* A fetched page is what the three scrapers find in it.                   *)
(***************************************************************************)
MaxCandidates == 3

SearchReplies ==
    [status : {"http_error", "bad_json"}, corrected : {FALSE}, has_items : {FALSE}, n : {0}]
    \cup [status : {"ok"}, corrected : BOOLEAN, has_items : {FALSE}, n : {0}]
    \cup [status : {"ok"}, corrected : BOOLEAN, has_items : {TRUE}, n : 0..MaxCandidates]

\* The title of the search item with link <<q, i>>.
PageTitle(link) == "result " \o ToString(link[1]) \o "." \o ToString(link[2])

\* response.json() of the reply to request q
SearchData(reply, q) ==
    [has_items |-> reply.has_items,
     items |-> [i \in 1..reply.n |-> [title |-> PageTitle(<<q, i>>), link |-> <<q, i>>]]]

NoSearchData == [has_items |-> FALSE, items |-> <<>>]

SearchFailure(reply) ==
    IF reply.status = "http_error" THEN Exc("Exception", "Search request failed")
    ELSE Exc("Exception", "Invalid JSON response")

\* Mutant: a spelling correction is not followed.
SearchWithoutRequery(reply1, reply2) ==
    IF reply1.status # "ok"
    THEN [raised |-> TRUE, exc |-> SearchFailure(reply1), value |-> NoSearchData, requests |-> 1]
    ELSE [raised |-> FALSE, exc |-> NoExc, value |-> SearchData(reply1, 1), requests |-> 1]

\* _search_for_lyrics: reply1 answers the first request, reply2 the re-query.
\* requests counts the search requests sent.
_search_for_lyrics(reply1, reply2) ==
    LET out(raised, exc, value, requests) ==
            [raised |-> raised, exc |-> exc, value |-> value, requests |-> requests]
    IN  IF reply1.status # "ok" THEN out(TRUE, SearchFailure(reply1), NoSearchData, 1)
        ELSE IF reply1.corrected
        THEN IF reply2.status # "ok" THEN out(TRUE, SearchFailure(reply2), NoSearchData, 2)
             ELSE out(FALSE, NoExc, SearchData(reply2, 2), 2)
        ELSE out(FALSE, NoExc, SearchData(reply1, 1), 1)

\* Texts a scraper can extract: more than 100 characters each.
GeniusText == <<Run("x", 150), Run("LF", 1), Run("x", 150)>>
SiteText == <<Run("x", 120), Run("LF", 2), Run("x", 120)>>
GenericText == <<Run("x", 250), Run("LF", 11), Run("x", 10)>>

Miss == [o |-> "miss", s |-> <<>>]
Raises == [o |-> "raise", s |-> <<>>]
Found(text) == [o |-> "text", s |-> text]

\* What a scraper's selectors meet in a page: nothing usable, markup it
\* raises on, or a text that passes its length test.
Pages ==
    [fetch : {"error"}, genius : {Miss}, site : {Miss}, generic : {Miss}]
    \cup [fetch : {"ok"}, genius : {Miss, Raises, Found(GeniusText)},
          site : {Miss, Raises, Found(SiteText)}, generic : {Miss, Raises, Found(GenericText)}]

\* Each scraper returns its text, or None (here the empty text) on a miss
\* and on any exception.
_try_genius_scraper(soup) == IF soup.genius.o = "text" THEN soup.genius.s ELSE <<>>

_try_lyrics_site_scraper(soup) == IF soup.site.o = "text" THEN soup.site.s ELSE <<>>

_try_generic_scraper(soup) == IF soup.generic.o = "text" THEN soup.generic.s ELSE <<>>

\* What the body of _extract_lyrics_from_url gave and which scrapers it called.
Extracted(lyrics, tried) == [lyrics |-> lyrics, tried |-> tried]

\* Mutant: the generic scraper is tried first.
CascadeGenericFirst(page) ==
    IF page.fetch # "ok" THEN Extracted(<<>>, <<>>)
    ELSE IF _try_generic_scraper(page) # <<>>
    THEN Extracted(_try_generic_scraper(page), <<"generic">>)
    ELSE IF _try_genius_scraper(page) # <<>>
    THEN Extracted(_try_genius_scraper(page), <<"generic", "genius">>)
    ELSE Extracted(_try_lyrics_site_scraper(page), <<"generic", "genius", "site">>)

\* Lines 59-88: the fetch, then the scrapers in turn until one gives lyrics.
Cascade(page) ==
    IF page.fetch # "ok" THEN Extracted(<<>>, <<>>)
    ELSE IF _try_genius_scraper(page) # <<>>
    THEN Extracted(_try_genius_scraper(page), <<"genius">>)
    ELSE IF _try_lyrics_site_scraper(page) # <<>>
    THEN Extracted(_try_lyrics_site_scraper(page), <<"genius", "site">>)
    ELSE Extracted(_try_generic_scraper(page), <<"genius", "site", "generic">>)

\* _extract_lyrics_from_url: the lyrics, or None (the empty text).
_extract_lyrics_from_url(page) == Cascade(page).lyrics

\* Mutant: the first candidate that fails ends the loop.
LoopStepAbortsOnFailure(lyrics, i, n) ==
    IF lyrics # <<>> THEN "return" ELSE "exhausted"

\* get_lyrics, lines 201-213: what the loop does after trying item i of n.
LoopStep(lyrics, i, n) ==
    IF lyrics # <<>> THEN "return"
    ELSE IF i < n THEN "continue"
    ELSE "exhausted"

(***************************************************************************)
(* The service: one request at a time.                                     *)
(***************************************************************************)
VARIABLES
    table,             \* the rows of the Supabase table "meanings"
    _supabase_client,  \* the module-level handle of supabase_client.py
    sb_env,            \* the Supabase part of the process environment
    gemini_env,        \* the Gemini part of the process environment
    world,             \* what the search API and the web can answer
    pc,                \* the position of the running handler
    route,             \* the handler (or function) that runs
    data,              \* the JSON body of the request
    lyrics_text,       \* local of the handlers: the normalized lyrics
    chosen_title,      \* local of get_lyrics_meaning_cached
    payload,           \* the payload built for the response and the cache
    search_data,       \* local of get_lyrics: the search result
    index,             \* local of get_lyrics: the candidate being tried
    visited,           \* what each candidate tried so far gave
    response,          \* the response of the handler
    trace,             \* the external calls made for this request, in order
    last,              \* what the last answered request of the cached handler returned
    repeat,            \* whether this request asks for the songId of that last one
    fn_args,           \* the arguments of a function that is called on its own
    fn_result,         \* what that function returned
    threads            \* the threads that are inside get_supabase_client

vars == <<table, _supabase_client, sb_env, gemini_env, world, pc, route, data, lyrics_text,
          chosen_title, payload, search_data, index, visited, response, trace, last, repeat,
          fn_args, fn_result, threads>>

\* The most rows the table is let to hold while requests are served.
MaxRows == 1

SongIds == {None, "s1"}
Titles == {None, "t1"}
Artists == {None, "a1"}
SongNames == {PyNone, PyStr(<<Run("x", 5)>>)}

\* 'lyrics' of a request: absent, blank, a short text with mixed line
\* endings, and a text of 25,000 characters.
ShortLyrics == PyStr(<<Run("x", 3), Run("CR", 2), Run("LF", 2), Run("x", 2), Run("SP", 1)>>)
LongLyrics == PyStr(<<Run("SP", 2), Run("x", 25000)>>)
LyricsInputs == {PyNone, PyStr(<<Run("SP", 1), Run("CR", 1), Run("LF", 1)>>), ShortLyrics, LongLyrics}

\* The bodies sent to the cached handler; an artist comes with a title.
Bodies ==
    {b \in [songId : SongIds, title : Titles, artist : Artists, song_name : SongNames,
            lyrics : LyricsInputs] : b.artist = None \/ b.title # None}

\* The bodies sent to /api/lyrics/meaning, which reads no song_name.
MeaningBodies == {b \in Bodies : b.song_name = PyNone /\ b.artist = None}

NoBody == [songId |-> None, title |-> None, artist |-> None, song_name |-> PyNone,
           lyrics |-> PyNone]

\* Everything the search API and the web can answer.
FullWorld == [replies |-> SearchReplies, pages |-> Pages]

\* The answers met while the meaning handlers are followed: the search
\* fails or lists up to two items, a page cannot be fetched or holds lyrics.
PipelineWorld ==
    [replies |-> {r \in SearchReplies : ~r.corrected /\ r.status # "bad_json" /\ r.n <= 2},
     pages |-> {p \in Pages : p.fetch = "error"
                              \/ (p.genius = Found(GeniusText) /\ p.site = Miss
                                  /\ p.generic = Miss)}]

Resp(status, success, cached, d, error) ==
    [status |-> status, success |-> success, cached |-> cached, data |-> d, error |-> error]

NoResponse == Resp(0, FALSE, FALSE, NoPayload, "")

\* The except clauses of get_lyrics_meaning and get_lyrics_meaning_cached.
MeaningError(exc) ==
    IF exc.type \in {"ValueError", "RuntimeError"}
    THEN Resp(400, FALSE, FALSE, NoPayload, exc.msg)
    ELSE Resp(500, FALSE, FALSE, NoPayload, exc.msg)

\* The except clause of get_lyrics (the /api/lyrics handler).
LyricsError(exc) == Resp(500, FALSE, FALSE, NoPayload, exc.msg)

\* An external call (or a normalization) made for the request, and how it ended.
Event(op, out) == [op |-> op, out |-> out]

\* n events of the same kind
Events(op, out, n) == [i \in 1..n |-> Event(op, out)]

\* No request of the cached handler was the last one answered with a payload.
NoLast == [songId |-> None, data |-> NoPayload, saved |-> FALSE]

\* No function is being called on its own.
NoCall == [f |-> "none"]

\* The most threads that serve requests at the same time.
MaxThreads == 2

Threads == 1..MaxThreads

\* A thread that is not inside get_supabase_client.
IdleThread == [pc |-> "idle", value |-> None]

InitWith(w) ==
    /\ table = {}
    /\ _supabase_client = None
    /\ sb_env \in SupabaseEnvs
    /\ gemini_env \in GeminiEnvs
    /\ world = w
    /\ pc = "idle"
    /\ route = "none"
    /\ data = NoBody
    /\ lyrics_text = <<>>
    /\ chosen_title = None
    /\ payload = NoPayload
    /\ search_data = NoSearchData
    /\ index = 0
    /\ visited = <<>>
    /\ response = NoResponse
    /\ trace = <<>>
    /\ last = NoLast
    /\ repeat = FALSE
    /\ fn_args = NoCall
    /\ fn_result = NoCall
    /\ threads = [t \in Threads |-> IdleThread]

Init == InitWith(PipelineWorld)

\* A request with body d arrives at handler r: the handler's locals are fresh.
Begin(r, d) ==
    /\ pc = "idle"
    /\ last' = NoLast
    /\ repeat' = (r = "cached" /\ last.data # NoPayload /\ last.songId # None
                  /\ d.songId = last.songId)
    /\ route' = r
    /\ data' = d
    /\ lyrics_text' = <<>>
    /\ chosen_title' = None
    /\ payload' = NoPayload
    /\ search_data' = NoSearchData
    /\ index' = 0
    /\ visited' = <<>>

\* The handler ends with response r.
Finish(r) ==
    /\ response' = r
    /\ pc' = "done"

\* The response leaves and the handler's frame is gone.  last keeps, of a
\* request the cached handler answered with a payload, the songId asked
\* for, the payload returned and whether the payload is in the cache (it
\* came from there, or the save returned True).
Respond ==
    /\ pc = "done"
    /\ pc' = "idle"
    /\ repeat' = FALSE
    /\ last' = (IF route = "cached" /\ response.success
                THEN [songId |-> data.songId, data |-> response.data,
                      saved |-> response.cached \/ trace[Len(trace)].out = "true"]
                ELSE NoLast)
    /\ route' = "none"
    /\ data' = NoBody
    /\ lyrics_text' = <<>>
    /\ chosen_title' = None
    /\ payload' = NoPayload
    /\ search_data' = NoSearchData
    /\ index' = 0
    /\ visited' = <<>>
    /\ response' = NoResponse
    /\ trace' = <<>>
    /\ UNCHANGED <<table, _supabase_client, sb_env, gemini_env, world, fn_args, fn_result, threads>>

\* What the cache check makes of the lookup's result.
LookupOutcome(cached) ==
    IF cached.raised THEN "raised" ELSE IF cached.value # NoPayload THEN "hit" ELSE "miss"

\* Mutant: a found record is not returned.
CacheHitIgnored(cached) == FALSE

\* `if cached:` (lines 322 and 390)
CacheHit(cached) == cached.value # NoPayload

\* Step 1 of both meaning handlers (lines 316-323 and 384-391).
CacheCheck(d) ==
    \E result \in ExecuteResults(table, StrOrNone(d.songId), d.title, d.artist) :
        LET cached == _get_cached_meaning_from_supabase(
                          StrOrNone(d.songId), d.title, d.artist,
                          _supabase_client, sb_env, result)
        IN  /\ _supabase_client' = cached.handle
            /\ trace' = <<Event("cache_lookup", LookupOutcome(cached))>>
            /\ IF cached.raised THEN Finish(MeaningError(cached.exc))
               ELSE IF CacheHit(cached)
               THEN Finish(Resp(200, TRUE, TRUE, cached.value, ""))
               ELSE /\ pc' = "resolve"
                    /\ response' = NoResponse

\* POST /api/lyrics/meaning/cached, lines 374-391
CachedRequest ==
    /\ \E d \in Bodies : Begin("cached", d) /\ CacheCheck(d)
    /\ UNCHANGED <<table, sb_env, gemini_env, world, fn_args, fn_result, threads>>

\* POST /api/lyrics/meaning, lines 305-323; 'lyrics' defaults to ''.
MeaningRequest ==
    /\ \E b \in MeaningBodies :
         LET d == [b EXCEPT !.lyrics = IF @ = PyNone THEN PyStr(<<>>) ELSE @]
         IN  Begin("meaning", d) /\ CacheCheck(d)
    /\ UNCHANGED <<table, sb_env, gemini_env, world, fn_args, fn_result, threads>>

\* POST /api/lyrics, lines 232-250: song_name is required.
LyricsRequest ==
    /\ \E name \in (SongNames \ {PyNone}) \cup {PyStr(<<Run("SP", 2)>>)} :
         /\ Begin("lyrics", [NoBody EXCEPT !.song_name = name])
         /\ IF Strip(name.s) = <<>>
            THEN Finish(Resp(400, FALSE, FALSE, NoPayload, "song_name is required"))
            ELSE /\ pc' = "search"
                 /\ response' = NoResponse
    /\ trace' = <<>>
    /\ UNCHANGED <<table, _supabase_client, sb_env, gemini_env, world, fn_args, fn_result, threads>>

\* The handler continues with the result n of a normalization.
Normalized(n) ==
    IF n.raised
    THEN /\ Finish(MeaningError(n.exc))
         /\ lyrics_text' = lyrics_text
    ELSE /\ lyrics_text' = n.value
         /\ pc' = "generate"
         /\ response' = response

NormalizeEvent(n) == Event("normalize", IF n.raised THEN "raised" ELSE "ok")

\* get_lyrics_meaning, line 326: the lyrics of the body are normalized.
NormalizeInput ==
    /\ pc = "resolve"
    /\ route = "meaning"
    /\ Normalized(_normalize_and_validate_lyrics(data.lyrics))
    /\ trace' = Append(trace, NormalizeEvent(_normalize_and_validate_lyrics(data.lyrics)))
    /\ UNCHANGED <<last, repeat, table, _supabase_client, sb_env, gemini_env, world, fn_args, fn_result, threads, route, data,
                   chosen_title, payload, search_data, index, visited>>

\* Mutant: the song name is looked at before the literal lyrics.
LyricsSourceNameFirst(d) ==
    IF NonBlankStr(d.song_name) THEN "song_name"
    ELSE IF NonBlankStr(d.lyrics) THEN "lyrics"
    ELSE "none"

\* get_lyrics_meaning_cached, lines 397-405: where the lyrics come from.
LyricsSource(d) ==
    IF NonBlankStr(d.lyrics) THEN "lyrics"
    ELSE IF NonBlankStr(d.song_name) THEN "song_name"
    ELSE "none"

\* get_lyrics_meaning_cached, lines 393-405
ResolveLyrics ==
    /\ pc = "resolve"
    /\ route = "cached"
    /\ chosen_title' = data.title
    /\ IF LyricsSource(data) = "lyrics"
       THEN /\ Normalized(_normalize_and_validate_lyrics(data.lyrics))
            /\ trace' = Append(trace, NormalizeEvent(_normalize_and_validate_lyrics(data.lyrics)))
       ELSE IF LyricsSource(data) = "song_name"
       THEN /\ pc' = "search"
            /\ UNCHANGED <<lyrics_text, response, trace>>
       ELSE /\ Finish(Resp(400, FALSE, FALSE, NoPayload,
                           "Provide either lyrics or song_name to extract lyrics"))
            /\ UNCHANGED <<lyrics_text, trace>>
    /\ UNCHANGED <<last, repeat, table, _supabase_client, sb_env, gemini_env, world, fn_args, fn_result, threads, route, data, payload,
                   search_data, index, visited>>

\* get_lyrics raises exc: the calling handler answers with its error response.
GetLyricsRaises(exc, events) ==
    /\ Finish(IF route = "lyrics" THEN LyricsError(exc) ELSE MeaningError(exc))
    /\ trace' = trace \o events
    /\ UNCHANGED <<lyrics_text, chosen_title>>

\* get_lyrics returns result: /api/lyrics answers with it (lines 252-262),
\* the cached handler normalizes it and fills in the title (lines 402-403).
GetLyricsReturns(result, events) ==
    IF route = "lyrics"
    THEN /\ Finish(Resp(200, TRUE, FALSE,
                        [title |-> result.title, lyrics |-> result.lyrics,
                         characters |-> StrLen(result.lyrics)], ""))
         /\ trace' = trace \o events
         /\ UNCHANGED <<lyrics_text, chosen_title>>
    ELSE LET n == _normalize_and_validate_lyrics(PyStr(result.lyrics))
         IN  /\ Normalized(n)
             /\ trace' = trace \o events \o <<NormalizeEvent(n)>>
             /\ chosen_title' = (IF n.raised \/ Truthy(chosen_title) THEN chosen_title
                                 ELSE result.title)

\* get_lyrics, lines 187-192: the search.
Search ==
    /\ pc = "search"
    /\ \E reply1 \in world.replies, reply2 \in world.replies :
         LET found == _search_for_lyrics(reply1, reply2)
             events == Events("search_request", "answered", found.requests - 1)
                       \o <<Event("search_request",
                                  IF found.raised THEN "failed" ELSE "answered")>>
         IN  IF found.raised
             THEN /\ GetLyricsRaises(found.exc, events)
                  /\ UNCHANGED <<search_data, index>>
             ELSE IF ~found.value.has_items \/ found.value.items = <<>>
             THEN /\ GetLyricsRaises(Exc("Exception", "No search results found"), events)
                  /\ search_data' = found.value
                  /\ index' = index
             ELSE /\ search_data' = found.value
                  /\ index' = 1
                  /\ pc' = "extract"
                  /\ trace' = trace \o events
                  /\ UNCHANGED <<lyrics_text, chosen_title, response>>
    /\ UNCHANGED <<last, repeat, table, _supabase_client, sb_env, gemini_env, world, fn_args, fn_result, threads, route, data, payload,
                   visited>>

\* get_lyrics, lines 195-213: one turn of the loop over the search items.
TryCandidate ==
    /\ pc = "extract"
    /\ \E page \in world.pages :
         LET item == search_data.items[index]
             lyrics == _extract_lyrics_from_url(page)
             events == <<Event("page_fetch", IF lyrics # <<>> THEN "ok" ELSE "failed")>>
             step == LoopStep(lyrics, index, Len(search_data.items))
         IN  /\ visited' = Append(visited, [link |-> item.link, lyrics |-> lyrics])
             /\ IF step = "return"
                THEN /\ GetLyricsReturns([title |-> item.title, lyrics |-> lyrics],
                                         events)
                     /\ index' = index
                ELSE IF step = "continue"
                THEN /\ index' = index + 1
                     /\ trace' = trace \o events
                     /\ UNCHANGED <<pc, lyrics_text, chosen_title, response>>
                ELSE /\ GetLyricsRaises(Exc("Exception",
                                            "Could not extract lyrics from any search result"),
                                        events)
                     /\ index' = index
    /\ UNCHANGED <<last, repeat, table, _supabase_client, sb_env, gemini_env, world, fn_args, fn_result, threads, route, data, payload,
                   search_data>>

\* Lines 415-421: the payload the cached handler stores and returns.
CombinedPayload(meaning_payload, title, artist, lyrics) ==
    [songId |-> meaning_payload.songId, title |-> title, artist |-> artist,
     lyrics |-> lyrics, lyricsMeaning |-> meaning_payload.lyricsMeaning]

\* Step "generate" of both meaning handlers (lines 328-332 and 408-421).
Generate ==
    /\ pc = "generate"
    /\ \E reply1 \in ModelReplies, reply2 \in ModelReplies :
         LET meaning_payload ==
                 _call_gemini_lyrics_meaning(lyrics_text, gemini_env, reply1, reply2)
         IN  /\ trace' = trace \o Events("model_invocation", "sent", meaning_payload.invocations)
             /\ IF meaning_payload.raised
                THEN /\ Finish(MeaningError(meaning_payload.exc))
                     /\ payload' = payload
                ELSE /\ payload' = (IF route = "cached"
                                    THEN CombinedPayload(meaning_payload.value, chosen_title,
                                                         data.artist, lyrics_text)
                                    ELSE meaning_payload.value)
                     /\ pc' = "store"
                     /\ response' = response
    /\ UNCHANGED <<last, repeat, table, _supabase_client, sb_env, gemini_env, world, fn_args, fn_result, threads, route, data,
                   lyrics_text, chosen_title, search_data, index, visited>>

\* What the save did, as the handler meets it.
StoreOutcome(saved) ==
    IF saved.raised THEN "raised" ELSE IF saved.value THEN "true" ELSE "false"

\* Mutant: the save is not wrapped in try/except, its exception reaches
\* the handler's except clause.
AfterStoreUnguarded(saved, p) ==
    IF saved.raised THEN MeaningError(saved.exc) ELSE Resp(200, TRUE, FALSE, p, "")

\* The response after the best-effort save (lines 342-345 and 427-430):
\* whatever the save did, the payload is returned as not cached.
AfterStore(saved, p) == Resp(200, TRUE, FALSE, p, "")

\* Step "store" of both meaning handlers (lines 334-345 and 423-430).
Store ==
    /\ pc = "store"
    /\ \E execute_ok \in BOOLEAN :
         LET saved == _upsert_meaning_into_supabase(
                          StrOrNone(data.songId),
                          IF route = "cached" THEN chosen_title ELSE data.title,
                          data.artist, payload, _supabase_client, sb_env, table, execute_ok)
         IN  /\ Cardinality(saved.table) <= MaxRows
             /\ table' = saved.table
             /\ _supabase_client' = saved.handle
             /\ trace' = Append(trace, Event("cache_store", StoreOutcome(saved)))
             /\ Finish(AfterStore(saved, payload))
    /\ UNCHANGED <<last, repeat, sb_env, gemini_env, world, fn_args, fn_result, threads, route, data, lyrics_text, chosen_title, payload,
                   search_data, index, visited>>

\* The two meaning handlers.
Next ==
    \/ CachedRequest
    \/ MeaningRequest
    \/ NormalizeInput
    \/ ResolveLyrics
    \/ Search
    \/ TryCandidate
    \/ Generate
    \/ Store
    \/ Respond

Spec == Init /\ [][Next]_vars

(***************************************************************************)
(* The /api/lyrics handler alone, against everything the search API and    *)
(* the web can answer.                                                     *)
(***************************************************************************)
InitLyrics == InitWith(FullWorld)

NextLyrics ==
    \/ LyricsRequest
    \/ Search
    \/ TryCandidate
    \/ Respond

SpecLyrics == InitLyrics /\ [][NextLyrics]_vars

(***************************************************************************)
(* The Annotation Cache alone: lookups and saves called directly, with     *)
(* every combination of keys, against a table of up to MaxCacheRows rows.  *)
(* data holds the keys of the call, payload what a lookup returned or a    *)
(* save was given, trace how the call ended.                               *)
(***************************************************************************)
MaxCacheRows == 2

CacheSongIds == SongIds \cup {"s2"}

CacheKeys == [songId : CacheSongIds, title : Titles, artist : Artists]

CachePayloads == {ModelPayload(r) : r \in {r \in ModelReplies : r.kind = "payload"}}

CallWith(r, k) ==
    /\ pc \in {"idle", "returned"}
    /\ pc' = "returned"
    /\ route' = r
    /\ data' = [NoBody EXCEPT !.songId = k.songId, !.title = k.title, !.artist = k.artist]

\* _get_cached_meaning_from_supabase(song_id, title, artist)
LookupCall ==
    /\ \E k \in CacheKeys :
         \E result \in ExecuteResults(table, k.songId, k.title, k.artist) :
             LET cached == _get_cached_meaning_from_supabase(
                               k.songId, k.title, k.artist, _supabase_client, sb_env, result)
             IN  /\ CallWith("lookup", k)
                 /\ payload' = cached.value
                 /\ _supabase_client' = cached.handle
                 /\ trace' = <<Event("cache_lookup", LookupOutcome(cached))>>
    /\ UNCHANGED <<table, sb_env, gemini_env, world, fn_args, fn_result, threads, lyrics_text, chosen_title, search_data,
                   index, visited, response, last, repeat>>

\* _upsert_meaning_into_supabase(song_id, title, artist, payload)
StoreCall ==
    /\ \E k \in CacheKeys, p \in CachePayloads, execute_ok \in BOOLEAN :
         LET saved == _upsert_meaning_into_supabase(
                          k.songId, k.title, k.artist, p, _supabase_client, sb_env, table,
                          execute_ok)
         IN  /\ Cardinality(saved.table) <= MaxCacheRows
             /\ CallWith("store", k)
             /\ payload' = p
             /\ table' = saved.table
             /\ _supabase_client' = saved.handle
             /\ trace' = <<Event("cache_store", StoreOutcome(saved))>>
    /\ UNCHANGED <<sb_env, gemini_env, world, fn_args, fn_result, threads, lyrics_text, chosen_title, search_data, index,
                   visited, response, last, repeat>>

NextCache ==
    \/ LookupCall
    \/ StoreCall

\* The generative model takes no part.
InitCache == Init /\ gemini_env = "ok"

SpecCache == InitCache /\ [][NextCache]_vars

(***************************************************************************)
(* The functions on their own: each is called with arguments drawn from    *)
(* everything it can be given, and returns.  fn_args holds the arguments,  *)
(* fn_result what the function returned.                                   *)
(***************************************************************************)
Called(a, r) ==
    /\ pc' = "returned"
    /\ fn_args' = a
    /\ fn_result' = r
    /\ UNCHANGED <<table, _supabase_client, sb_env, gemini_env, world, route, data,
                   lyrics_text, chosen_title, payload, search_data, index, visited, response,
                   trace, last, repeat, threads>>

\* The function's frame is gone.
CallReturned ==
    /\ pc = "returned"
    /\ pc' = "idle"
    /\ fn_args' = NoCall
    /\ fn_result' = NoCall
    /\ UNCHANGED <<table, _supabase_client, sb_env, gemini_env, world, route, data,
                   lyrics_text, chosen_title, payload, search_data, index, visited, response,
                   trace, last, repeat, threads>>

\* _search_for_lyrics(song_name): reply1 answers the request, reply2 the
\* re-query if there is one.
SearchCall ==
    /\ pc = "idle"
    /\ \E reply1 \in SearchReplies, reply2 \in SearchReplies :
         Called([f |-> "search", reply1 |-> reply1, reply2 |-> reply2],
                _search_for_lyrics(reply1, reply2))

\* _extract_lyrics_from_url(url, title), the page behind url being page
ExtractCall ==
    /\ pc = "idle"
    /\ \E page \in Pages : Called([f |-> "extract", page |-> page], Cascade(page))

\* The texts given to the normalizer: up to MaxRuns runs of one character,
\* of a length that is small or at the limit (runs of the same character
\* may follow each other, so that 19999 + 1 and 20000 + 1 occur).
MaxRuns == 3

RunLengths == {1, 2, MaxLyricsLen - 1, MaxLyricsLen}

Texts == UNION {[1..n -> {Run(c, k) : c \in Chars, k \in RunLengths}] : n \in 0..MaxRuns}

NormalizeInputs == {PyNone, PyInt} \cup {PyStr(s) : s \in Texts}

\* _normalize_and_validate_lyrics(raw_lyrics)
NormalizeCall ==
    /\ pc = "idle"
    /\ \E raw_lyrics \in NormalizeInputs :
         Called([f |-> "normalize", raw_lyrics |-> raw_lyrics, again |-> FALSE],
                _normalize_and_validate_lyrics(raw_lyrics))

\* _normalize_and_validate_lyrics applied to the text it has just returned.
NormalizeAgain ==
    /\ pc = "returned"
    /\ fn_args.f = "normalize"
    /\ ~fn_args.again
    /\ ~fn_result.raised
    /\ fn_args' = [f |-> "normalize", raw_lyrics |-> PyStr(fn_result.value), again |-> TRUE]
    /\ fn_result' = _normalize_and_validate_lyrics(PyStr(fn_result.value))
    /\ UNCHANGED <<table, _supabase_client, sb_env, gemini_env, world, pc, route, data,
                   lyrics_text, chosen_title, payload, search_data, index, visited, response,
                   trace, last, repeat, threads>>

\* _call_gemini_lyrics_meaning(lyrics, song_id, custom_instructions) in the
\* environment of the process
GenerateCall ==
    /\ pc = "idle"
    /\ \E reply1 \in ModelReplies, reply2 \in ModelReplies :
         Called([f |-> "generate", env |-> gemini_env, reply1 |-> reply1, reply2 |-> reply2],
                _call_gemini_lyrics_meaning(NormalizedText(ShortLyrics.s), gemini_env,
                                            reply1, reply2))

NextCalls ==
    \/ SearchCall
    \/ ExtractCall
    \/ NormalizeCall
    \/ NormalizeAgain
    \/ GenerateCall
    \/ CallReturned

\* Neither the table nor its client takes part.
InitCalls == Init /\ sb_env = "ok"

SpecCalls == InitCalls /\ [][NextCalls]_vars

(***************************************************************************)
(* get_supabase_client called by the threads that serve requests at the    *)
(* same time (src/core/supabase_client.py:13-41).  A step is one read or   *)
(* one write of the module-level handle; there is no lock.  trace holds    *)
(* one event for each client that create_client has built.                 *)
(***************************************************************************)
\* The n-th client object that create_client builds.
NewClient(n) == Client \o ToString(n)

\* Thread t goes to pc_t holding value; nothing but the handle and the
\* clients built is touched by get_supabase_client.
At(t, pc_t, value) ==
    /\ threads' = [threads EXCEPT ![t] = [pc |-> pc_t, value |-> value]]
    /\ UNCHANGED <<table, sb_env, gemini_env, world, pc, route, data, lyrics_text,
                   chosen_title, payload, search_data, index, visited, response, last, repeat,
                   fn_args, fn_result>>

\* Line 21: `if _supabase_client is not None`
ClientCheck(t) ==
    /\ threads[t].pc = "idle"
    /\ At(t, IF _supabase_client # None THEN "line 22" ELSE "line 24", None)
    /\ UNCHANGED <<_supabase_client, trace>>

\* Line 22: `return _supabase_client`
ClientReturnCached(t) ==
    /\ threads[t].pc = "line 22"
    /\ At(t, "returned", _supabase_client)
    /\ UNCHANGED <<_supabase_client, trace>>

\* Lines 24-38: the package and the credentials are looked at.
ClientCheckEnv(t) ==
    /\ threads[t].pc = "line 24"
    /\ At(t, IF get_supabase_client(None, sb_env).raised THEN "raised" ELSE "line 40", None)
    /\ UNCHANGED <<_supabase_client, trace>>

\* Line 40, right-hand side: create_client(supabase_url, supabase_key)
ClientCreate(t) ==
    /\ threads[t].pc = "line 40"
    /\ At(t, "assign", NewClient(Len(trace) + 1))
    /\ trace' = Append(trace, Event("create_client", NewClient(Len(trace) + 1)))
    /\ UNCHANGED _supabase_client

\* Line 40, the assignment to the module-level handle
ClientAssign(t) ==
    /\ threads[t].pc = "assign"
    /\ _supabase_client' = threads[t].value
    /\ At(t, "line 41", None)
    /\ UNCHANGED trace

\* Line 41: `return _supabase_client`
ClientReturn(t) ==
    /\ threads[t].pc = "line 41"
    /\ At(t, "returned", _supabase_client)
    /\ UNCHANGED <<_supabase_client, trace>>

\* The caller goes on with the handle, or with the exception.
ClientLeave(t) ==
    /\ threads[t].pc \in {"returned", "raised"}
    /\ At(t, "idle", None)
    /\ UNCHANGED <<_supabase_client, trace>>

NextClient ==
    \/ \E t \in Threads : ClientCheck(t)
    \/ \E t \in Threads : ClientReturnCached(t)
    \/ \E t \in Threads : ClientCheckEnv(t)
    \/ \E t \in Threads : ClientCreate(t)
    \/ \E t \in Threads : ClientAssign(t)
    \/ \E t \in Threads : ClientReturn(t)
    \/ \E t \in Threads : ClientLeave(t)

\* The generative model takes no part.
InitClient == Init /\ gemini_env = "ok"

SpecClient == InitClient /\ [][NextClient]_vars

(***************************************************************************)
(* Properties.                                                             *)
(***************************************************************************)
\* How many events of kind op the request has in its trace.
Calls(op) == Cardinality({i \in DOMAIN trace : trace[i].op = op})

Pipeline == route \in {"cached", "meaning"}

\* C1: in the cached flow the cache lookup is the first step of the call and
\* the only lookup; when it yields a record the call ends at once with
\* status 200, cached = true and the payload of a record the lookup's key
\* selects, having normalized nothing, searched and fetched nothing, invoked
\* no model and stored nothing; and only a hit is answered as cached.
C1_HitReturnsAtOnce ==
    route = "cached" =>
        /\ trace # <<>>
        /\ trace[1].op = "cache_lookup"
        /\ Calls("cache_lookup") = 1
        /\ trace[1].out = "hit" =>
              /\ pc = "done"
              /\ trace = <<Event("cache_lookup", "hit")>>
              /\ response.status = 200 /\ response.success /\ response.cached
              /\ \E r \in QueryRows(table, data.songId, data.title, data.artist) :
                     response.data = r.payload
              /\ lyrics_text = <<>> /\ visited = <<>> /\ payload = NoPayload
        /\ response.cached => trace[1].out = "hit"

\* A call that supplied lyrics and a song name was answered from the cache.
C1_Witness ==
    /\ route = "cached" /\ pc = "done" /\ response.cached
    /\ NonBlankStr(data.lyrics) /\ NonBlankStr(data.song_name)

\* The cached handler, just answered with a payload for a songId, is called
\* again with that songId; nothing else touched the table in between.
SecondCall ==
    /\ pc = "idle"
    /\ last.data # NoPayload
    /\ last.songId # None
    /\ route' = "cached"
    /\ data'.songId = last.songId

OverLimit(v) == IsStr(v) /\ StrLen(NormalizedText(v.s)) > MaxLyricsLen

TooLong == "lyrics too long; please provide fewer than 20,000 characters"

\* C3 (as stated): every pipeline call with lyrics over the limit ends with
\* the validation error and without a model invocation (here even granted
\* that the lookup query does not fail).
C3_OverLimitIsValidationError ==
    Pipeline /\ pc = "done" /\ OverLimit(data.lyrics) /\ trace[1].out # "raised"
    => /\ response.status = 400 /\ response.error = TooLong
       /\ Calls("model_invocation") = 0

\* C3 (amended): a pipeline call with lyrics over the limit never invokes the
\* model and never stores; it ends with the validation error (400) when the
\* cache lookup finds nothing, with the cached record when the lookup finds
\* one, and with the error response 500 when the lookup query fails.
C3_OverLimitNeverReachesModel ==
    Pipeline /\ OverLimit(data.lyrics)
    => /\ Calls("model_invocation") = 0
       /\ Calls("cache_store") = 0
       /\ pc \in {"resolve", "done"}
       /\ pc = "done" =>
             /\ trace[1].out = "miss" =>
                   /\ response.status = 400 /\ ~response.success
                   /\ response.error = TooLong
                   /\ trace[Len(trace)] = Event("normalize", "raised")
             /\ trace[1].out = "hit" => response.status = 200 /\ response.cached
             /\ trace[1].out = "raised" => response.status = 500 /\ ~response.success

\* A call with more than 25,000 characters ended with the validation error.
C3_Witness ==
    /\ Pipeline /\ pc = "done" /\ OverLimit(data.lyrics)
    /\ StrLen(data.lyrics.s) > 25000
    /\ response.status = 400 /\ response.error = TooLong

ProvideEither == "Provide either lyrics or song_name to extract lyrics"

\* C4 (as stated): on a cache miss, when literal lyrics were supplied (a
\* string is in the body) the Retrieval Orchestrator is not run.
C4_SuppliedLyricsAreUsed ==
    route = "cached" /\ trace[1].out = "miss" /\ IsStr(data.lyrics)
    => pc \notin {"search", "extract"} /\ Calls("search_request") = 0

\* C4 (amended): on a cache miss, lyrics that are a non-blank string are
\* normalized and used and nothing is searched or fetched; else a non-blank
\* song name starts the search and what the Retrieval Orchestrator returns
\* is normalized and used; else the call ends with 400 "Provide either
\* lyrics or song_name" having invoked no model and stored nothing.  A
\* blank lyrics string counts as not supplied.
C4_LyricsSourcePrecedence ==
    route = "cached" /\ trace[1].out = "miss"
    => /\ NonBlankStr(data.lyrics) =>
             /\ pc \notin {"search", "extract"}
             /\ Calls("search_request") = 0 /\ Calls("page_fetch") = 0
             /\ Len(trace) >= 2 => trace[2].op = "normalize"
             /\ lyrics_text # <<>> => lyrics_text = NormalizedText(data.lyrics.s)
       /\ ~NonBlankStr(data.lyrics) /\ NonBlankStr(data.song_name) =>
             /\ pc # "resolve" => pc = "search" \/ trace[2].op = "search_request"
             /\ Calls("normalize") > 0 =>
                   /\ Calls("normalize") = 1
                   /\ visited # <<>> /\ visited[Len(visited)].lyrics # <<>>
                   /\ pc # "done" \/ response.success =>
                         lyrics_text = NormalizedText(visited[Len(visited)].lyrics)
             /\ Calls("model_invocation") > 0 => Calls("normalize") = 1
       /\ ~NonBlankStr(data.lyrics) /\ ~NonBlankStr(data.song_name) =>
             /\ pc \in {"resolve", "done"}
             /\ Len(trace) = 1
             /\ pc = "done" =>
                   /\ response.status = 400 /\ ~response.success
                   /\ response.error = ProvideEither

\* A blank lyrics string came with a song name: the lyrics were retrieved,
\* and the call generated and answered.
C4_Witness ==
    /\ route = "cached" /\ pc = "done" /\ response.success /\ ~response.cached
    /\ IsStr(data.lyrics) /\ ~NonBlankStr(data.lyrics)
    /\ Calls("page_fetch") > 0 /\ Calls("normalize") = 1

\* C5: a call of the Annotation Generator invokes the generative model once:
\* there is no second invocation.
C5_OneModelInvocation == Pipeline => Calls("model_invocation") <= 1

\* C6: the cache lookup never raises, whatever fails in the backing store.
C6_LookupNeverRaises ==
    Pipeline => \A i \in DOMAIN trace :
                   trace[i].op = "cache_lookup" => trace[i].out # "raised"

\* C7: the save never raises to its caller: a failure is the return value false.
C7_StoreNeverRaises ==
    Pipeline => \A i \in DOMAIN trace :
                   trace[i].op = "cache_store" => trace[i].out \in {"true", "false"}

\* C8: once the generator has succeeded the call reaches the store step with
\* the generated annotation, and whatever the store step does (returns true,
\* returns false or raises) the call ends with status 200, cached = false
\* and that annotation.
C8_StoreNeverChangesResponse ==
    Pipeline =>
        /\ pc = "store" => payload # NoPayload /\ payload.lyricsMeaning \in Meanings
        /\ Calls("cache_store") > 0 =>
              /\ pc = "done"
              /\ payload # NoPayload /\ payload.lyricsMeaning \in Meanings
              /\ response = Resp(200, TRUE, FALSE, payload, "")

\* The save raised and the call answered with the generated annotation.
C8_Witness ==
    /\ Pipeline /\ pc = "done"
    /\ trace[Len(trace)] = Event("cache_store", "raised")
    /\ response.success /\ response.data = payload

\* A lookup that reached the table and got an answer has returned.
LookupAnswered ==
    route = "lookup" /\ pc = "returned" /\ sb_env = "ok" /\ trace[1].out \in {"hit", "miss"}

Payloads(rows) == {r.payload : r \in rows}

MatchSongId(k) == {r \in table : Truthy(k.songId) /\ r.song_id = k.songId}

MatchTitleArtist(k) ==
    {r \in table : Truthy(k.title) /\ Truthy(k.artist) /\ r.title = k.title
                   /\ r.artist = k.artist}

MatchTitle(k) == {r \in table : Truthy(k.title) /\ r.title = k.title}

\* C9 (as stated): the first key that matches a stored record wins: a record
\* matching the songId is returned; when none matches the songId, a record
\* matching (title, artist); when neither matches, a record matching the
\* title alone; null only when none matches.
C9_FirstMatchingKeyWins ==
    LookupAnswered =>
        IF MatchSongId(data) # {} THEN payload \in Payloads(MatchSongId(data))
        ELSE IF MatchTitleArtist(data) # {} THEN payload \in Payloads(MatchTitleArtist(data))
        ELSE IF MatchTitle(data) # {} THEN payload \in Payloads(MatchTitle(data))
        ELSE payload = NoPayload

\* C9 (amended): the lookup asks for one key only, the first that is
\* supplied: the songId when one is given, else (title, artist) when both
\* are given, else the title when given.  It returns a record matching that
\* key, and null when no record matches it (or no key is given), without
\* trying the keys that follow.  A lookup that cannot reach the table
\* returns null.
C9_FirstSuppliedKeyWins ==
    /\ LookupAnswered =>
          LET rows == IF Truthy(data.songId) THEN MatchSongId(data)
                      ELSE IF Truthy(data.title) /\ Truthy(data.artist)
                      THEN MatchTitleArtist(data)
                      ELSE MatchTitle(data)
          IN  IF rows # {} THEN payload \in Payloads(rows) ELSE payload = NoPayload
    /\ route = "lookup" /\ sb_env # "ok" => payload = NoPayload /\ trace[1].out = "miss"

\* The table holds a record for the songId and another one for the (title,
\* artist) of a lookup by all three keys: the songId record was returned.
C9_Witness ==
    /\ LookupAnswered /\ trace[1].out = "hit"
    /\ \E r \in MatchSongId(data) : r.payload = payload
    /\ \E r \in MatchTitleArtist(data) : r.song_id # data.songId /\ r.payload # payload

\* The error responses getLyrics' NotFoundError gives.
NotFoundErrors ==
    {"No search results found", "Could not extract lyrics from any search result"}

\* C10: getLyrics visits the candidates in the order of the search result,
\* one after a candidate that failed; it returns the lyrics of the first
\* candidate that gives some, under that candidate's own title; and it ends
\* with NotFoundError exactly when the search answered with no items or
\* every candidate was visited and failed.
C10_FirstCandidateThatSucceeds ==
    route = "lyrics" =>
        LET items == search_data.items
            k == Len(visited)
            failed(n) == \A i \in 1..n : visited[i].lyrics = <<>>
            answered == Calls("search_request") > 0
                        /\ trace[Calls("search_request")].out = "answered"
        IN  /\ k <= Len(items)
            /\ \A i \in 1..k : visited[i].link = items[i].link
            /\ failed(k - 1)
            /\ Calls("page_fetch") = k
            /\ pc = "extract" => failed(k) /\ index = k + 1 /\ k < Len(items)
            /\ pc = "done" /\ response.success =>
                  /\ k >= 1 /\ visited[k].lyrics # <<>>
                  /\ response.data.lyrics = visited[k].lyrics
                  /\ response.data.title = items[k].title
            /\ pc = "done" /\ ~response.success =>
                  (response.error \in NotFoundErrors
                   <=> answered /\ (~search_data.has_items \/ items = <<>>
                                    \/ (k = Len(items) /\ failed(k))))
            /\ answered /\ (~search_data.has_items \/ items = <<>>
                            \/ (k = Len(items) /\ failed(k)))
               => pc = "done" /\ ~response.success

\* The first two of three candidates failed and the lyrics of the third were
\* returned under its title.
C10_Witness ==
    /\ route = "lyrics" /\ pc = "done" /\ response.success
    /\ Len(search_data.items) = 3 /\ Len(visited) = 3
    /\ response.data.title = search_data.items[3].title
    /\ response.data.title # search_data.items[1].title

\* C11: one call of the search sends one request when the first response
\* carries no spelling correction (or fails), and two when it carries one,
\* whatever the re-query's response carries; after a re-query the fn_result is
\* the re-query's items alone, in the re-query's number and order.
C11_OneRequeryAtMost ==
    fn_args.f = "search" =>
        LET requery == fn_args.reply1.status = "ok" /\ fn_args.reply1.corrected
            reply == IF requery THEN fn_args.reply2 ELSE fn_args.reply1
            q == IF requery THEN 2 ELSE 1
        IN  /\ fn_result.requests = q
            /\ fn_result.raised <=> reply.status # "ok"
            /\ ~fn_result.raised =>
                  /\ fn_result.value.has_items = reply.has_items
                  /\ Len(fn_result.value.items) = reply.n
                  /\ \A i \in 1..reply.n : fn_result.value.items[i].link = <<q, i>>

\* Both responses carried a correction: two requests were sent and the
\* re-query's items were returned, not the first response's.
C11_Witness ==
    /\ fn_args.f = "search" /\ fn_args.reply1.corrected /\ fn_args.reply2.corrected
    /\ fn_args.reply1.n > 0 /\ fn_args.reply2.n > 0 /\ fn_args.reply1.n # fn_args.reply2.n
    /\ fn_result.requests = 2 /\ ~fn_result.raised
    /\ Len(fn_result.value.items) = fn_args.reply2.n

\* The scrapers in their order.
Strategies == <<"genius", "site", "generic">>

\* What a scraper finds in the page: its text, or nothing when it misses or raises.
StrategyText(page, s) ==
    LET found == IF s = "genius" THEN page.genius
                 ELSE IF s = "site" THEN page.site ELSE page.generic
    IN  IF found.o = "text" THEN found.s ELSE <<>>

\* C12: for a fetched page the cascade calls the structured-container, the
\* paragraph-selector and the generic scraper in that order, stops at the
\* first that gives text and returns that text; a scraper that raises is
\* passed like one that misses; nothing is returned only when none of the
\* three gives text.  A page that cannot be fetched gives nothing and no
\* scraper is called.
C12_CascadeOrder ==
    fn_args.f = "extract" =>
        LET page == fn_args.page
            hits == {i \in 1..3 : StrategyText(page, Strategies[i]) # <<>>}
            first == CHOOSE i \in hits : \A j \in hits : i <= j
        IN  IF page.fetch # "ok" THEN fn_result = Extracted(<<>>, <<>>)
            ELSE IF hits = {} THEN fn_result = Extracted(<<>>, Strategies)
            ELSE /\ fn_result.tried = SubSeq(Strategies, 1, first)
                 /\ fn_result.lyrics = StrategyText(page, Strategies[first])
                 /\ fn_result.lyrics # <<>>

\* A page matching the structured-container and the generic pattern gave
\* the structured-container text, and no other scraper was called.
C12_Witness ==
    /\ fn_args.f = "extract"
    /\ fn_args.page.genius.o = "text" /\ fn_args.page.generic.o = "text"
    /\ fn_args.page.genius.s # fn_args.page.generic.s
    /\ fn_result = Extracted(fn_args.page.genius.s, <<"genius">>)

\* C13: normalizing a text that the normalizer has returned is accepted and
\* returns that text unchanged.
C13_NormalizeIdempotent ==
    fn_args.f = "normalize" /\ fn_args.again =>
        /\ ~fn_result.raised
        /\ fn_result.value = fn_args.raw_lyrics.s

\* A returned text (a letter, two newlines, a letter) was normalized again.
C13_Witness ==
    /\ fn_args.f = "normalize" /\ fn_args.again /\ ~fn_result.raised
    /\ fn_result.value = <<Run("x", 1), Run("LF", 2), Run("x", 1)>>

\* The length a text has once its line endings are unified and its ends
\* trimmed, runs of 3 and more newlines counting as 2.
RECURSIVE CountedLen(_)
CountedLen(s) ==
    IF s = <<>> THEN 0
    ELSE (IF Head(s).c = "LF" /\ Head(s).n >= 3 THEN 2 ELSE Head(s).n) + CountedLen(Tail(s))

\* C14: the normalizer raises ValueError exactly when its input is not a
\* string, or is empty after normalization, or is longer than 20,000
\* characters after normalization; a text of exactly 20,000 normalized
\* characters is accepted; what is accepted is returned whole: it has the
\* normalized length, no carriage return, no run of 3 newlines and no
\* whitespace at its ends.
C14_NormalizeRejects ==
    fn_args.f = "normalize" =>
        LET raw == fn_args.raw_lyrics
            n == CountedLen(Strip(Canon(ReplaceCR(ReplaceCRLF(Canon(raw.s))))))
        IN  /\ fn_result.raised <=> (~IsStr(raw) \/ n = 0 \/ n > 20000)
            /\ fn_result.raised => fn_result.exc.type = "ValueError"
            /\ ~fn_result.raised =>
                  /\ StrLen(fn_result.value) = n
                  /\ \A i \in DOMAIN fn_result.value :
                        /\ fn_result.value[i].c # "CR"
                        /\ fn_result.value[i].c = "LF" => fn_result.value[i].n <= 2
                  /\ fn_result.value[1].c = "x"
                  /\ fn_result.value[Len(fn_result.value)].c = "x"

\* A text longer than 20,000 characters that has exactly 20,000 once
\* normalized was accepted and returned with its 20,000 characters.
C14_Witness ==
    /\ fn_args.f = "normalize" /\ ~fn_args.again /\ ~fn_result.raised
    /\ StrLen(fn_args.raw_lyrics.s) > 20000
    /\ StrLen(fn_result.value) = 20000

\* The messages of the rate-limited error.
RateLimitedMessages == {"Gemini API quota exceeded", "Gemini API rate limit exceeded"}

\* C15: a failure of a model invocation leaves the generator classified: as
\* the rate-limited error when its message carries a quota or rate-limit
\* signal, else as the generic error carrying the message; both are
\* RuntimeError.
C15_FailuresAreClassified ==
    fn_args.f = "generate" /\ fn_args.env = "ok" =>
        LET failed1 == fn_args.reply1.kind = "raise"
            failed2 == ~failed1 /\ fn_args.reply2.kind = "raise"
            msg == IF failed1 THEN fn_args.reply1.msg ELSE fn_args.reply2.msg
        IN  failed1 \/ failed2 =>
                /\ fn_result.raised
                /\ fn_result.exc.type = "RuntimeError"
                /\ IF HasQuotaSignal(msg) \/ HasRateSignal(msg)
                   THEN fn_result.exc.msg \in RateLimitedMessages
                   ELSE fn_result.exc.msg = "Gemini API error: " \o msg

\* C16: whatever the interleaving of the threads that call
\* get_supabase_client, create_client builds at most one client, all callers
\* are returned the same handle, and where the package or the credentials
\* are missing the handle stays unset.
C16_ClientBuiltOnce ==
    /\ Calls("create_client") <= 1
    /\ \A t \in Threads, u \in Threads :
          threads[t].pc = "returned" /\ threads[u].pc = "returned"
          => threads[t].value = threads[u].value
    /\ sb_env # "ok" => _supabase_client = None

====
